---- MODULE Spec2Model ----
(***************************************************************************)
(* Model of UseCase2.py, the Streamlit "Research Article Generator".       *)
(*                                                                         *)
(* One run of the script body under `if st.button(...)` is modelled as a   *)
(* sequence of steps of one browser session.  Sessions share one Python    *)
(* process, hence one os.environ.  Text is modelled as a sequence of       *)
(* one-character strings so that str.strip, str.split and the `in`         *)
(* operator are computed character by character.                           *)
(***************************************************************************)
EXTENDS Integers, Sequences, FiniteSets, TLC

(***************************************************************************)
(* Bounds of the model.                                                    *)
(***************************************************************************)
MaxFiles == 2
MaxChunks == 3

(***************************************************************************)
(* Sessions.  Spec and SpecFormat run one session; SpecShared runs two     *)
(* sessions in the same process.                                           *)
(***************************************************************************)
AllSessions == {"s1", "s2"}
SoloSessions == {"s1"}

(***************************************************************************)
(* Generic helpers on sequences.                                           *)
(***************************************************************************)
SeqsUpTo(S, n) == UNION {[1..k -> S] : k \in 0..n}

RECURSIVE Flatten(_)
Flatten(ss) == IF ss = <<>> THEN <<>> ELSE Head(ss) \o Flatten(Tail(ss))

Last(q) == q[Len(q)]

(***************************************************************************)
(* Characters with a special role.                                         *)
(*   InvalidByte : a byte that is not valid UTF-8 (dropped by              *)
(*                 bytes.decode("utf-8", errors="ignore"))                 *)
(*   Surrogate   : a lone surrogate code point (dropped by                 *)
(*                 str.encode('utf-8', errors='ignore'))                   *)
(***************************************************************************)
InvalidByte == "\\xff"
Surrogate == "\\ud800"
NL == "\n"
Star == "*"

(***************************************************************************)
(* Inputs of a run.                                                        *)
(***************************************************************************)
FileContents == { <<>>, <<"a">>, <<InvalidByte, "b">> }
Uploads == SeqsUpTo(FileContents, MaxFiles)
SharedUploads == {<<>>, << <<"a">> >>}
Credentials == {"", "sk-A", "sk-B"}

(* HTTP statuses the model-listing endpoint may answer with. *)
Statuses == {200, 304, 401, 500}
Body == "body"

(***************************************************************************)
(* Line 41-42: decoding of one file and concatenation of all files.        *)
(***************************************************************************)
Decode(bytes) == SelectSeq(bytes, LAMBDA b : b # InvalidByte)

RECURSIVE ConcatFrom(_, _)
ConcatFrom(acc, files) ==
    IF files = <<>> THEN acc
    ELSE ConcatFrom(acc \o <<NL>> \o Decode(Head(files)), Tail(files))

Concatenate(files) == ConcatFrom(<<>>, files)

(***************************************************************************)
(* Line 29-33: input validation.                                           *)
(***************************************************************************)
ValidateFilesOnly(files, key) ==
    IF files = <<>> THEN "no_files" ELSE "ok"

Validate(files, key) ==
    IF files = <<>> THEN "no_files"
    ELSE IF key = "" THEN "no_key"
    ELSE "ok"

(***************************************************************************)
(* Line 35-36: the two os.environ assignments.                             *)
(***************************************************************************)
Unset == "<unset>"
ModelName == "gpt-4o"

NewEnvironKeyOnly(env, key) ==
    [env EXCEPT !.OPENAI_API_KEY = key]

NewEnvironSetDefault(env, key) ==
    [OPENAI_API_KEY |-> IF env.OPENAI_API_KEY = Unset THEN key
                        ELSE env.OPENAI_API_KEY,
     OPENAI_MODEL_NAME |-> ModelName]

NewEnviron(env, key) ==
    [env EXCEPT !.OPENAI_API_KEY = key, !.OPENAI_MODEL_NAME = ModelName]

(***************************************************************************)
(* Line 48: Response.raise_for_status raises HTTPError for a 4xx or 5xx    *)
(* status and returns for every other status.                              *)
(***************************************************************************)
RaisesOnlyServerError(status) == 500 <= status /\ status < 600

RaisesForStatus(status) == 400 <= status /\ status < 600

(***************************************************************************)
(* Exceptions.  `request` tells whether the exception is an instance of    *)
(* requests.exceptions.RequestException; `response` is its response        *)
(* attribute, <<>> standing for None.                                      *)
(***************************************************************************)
HttpResponse(status) == [status_code |-> status, text |-> Body]

ConnectionError ==
    [cls |-> "ConnectionError", request |-> TRUE, response |-> <<>>]

HTTPError(status) ==
    [cls |-> "HTTPError", request |-> TRUE,
     response |-> <<HttpResponse(status)>>]

OtherError ==
    [cls |-> "RuntimeError", request |-> FALSE, response |-> <<>>]

(* What crew.kickoff() may raise. *)
KickoffErrors == {ConnectionError, HTTPError(500), OtherError}

(* Line 200: hasattr(e, 'response').  Every RequestException carries the
   attribute, set to None when no response was received. *)
HasAttrResponse(e) == e.request

(***************************************************************************)
(* Line 148: crew.kickoff() is called without inputs and the task          *)
(* descriptions (lines 104-137) are literals: the transcripts are not      *)
(* part of what the pipeline receives.                                     *)
(***************************************************************************)
KickoffInput(transcript) == <<>>

(***************************************************************************)
(* Line 152: encode('utf-8', errors='ignore').decode('utf-8').             *)
(***************************************************************************)
Clean(text) == SelectSeq(text, LAMBDA c : c # Surrogate)

(* Raw texts the pipeline may return in Spec and SpecShared. *)
RawResults == { <<>>,
                <<Star, "C", Surrogate, NL, "a">> }

(***************************************************************************)
(* Line 168: subheading_keywords, as character sequences.                  *)
(***************************************************************************)
KwIndustryTrends ==
    <<"I", "n", "d", "u", "s", "t", "r", "y", " ", "T", "r", "e", "n", "d",
      "s">>

KwTechnologicalImpacts ==
    <<"T", "e", "c", "h", "n", "o", "l", "o", "g", "i", "c", "a", "l", " ",
      "I", "m", "p", "a", "c", "t", "s">>

KwRegulatoryConsiderations ==
    <<"R", "e", "g", "u", "l", "a", "t", "o", "r", "y", " ", "C", "o", "n",
      "s", "i", "d", "e", "r", "a", "t", "i", "o", "n", "s">>

KwFutureOutlook ==
    <<"F", "u", "t", "u", "r", "e", " ", "O", "u", "t", "l", "o", "o", "k">>

KwConclusion ==
    <<"C", "o", "n", "c", "l", "u", "s", "i", "o", "n">>

subheading_keywords ==
    <<KwIndustryTrends, KwTechnologicalImpacts, KwRegulatoryConsiderations,
      KwFutureOutlook, KwConclusion>>

(***************************************************************************)
(* Line 172: `keyword in clean_line` is substring containment.             *)
(***************************************************************************)
Contains(kw, line) ==
    \E i \in 0..(Len(line) - Len(kw)) : SubSeq(line, i + 1, i + Len(kw)) = kw

IsSubheading(clean_line) ==
    \E k \in DOMAIN subheading_keywords :
        Contains(subheading_keywords[k], clean_line)

(***************************************************************************)
(* Line 171: line.strip('*').                                              *)
(***************************************************************************)
RECURSIVE LStrip(_)
LStrip(line) ==
    IF line # <<>> /\ Head(line) = Star THEN LStrip(Tail(line)) ELSE line

RECURSIVE RStrip(_)
RStrip(line) ==
    IF line # <<>> /\ Last(line) = Star
    THEN RStrip(SubSeq(line, 1, Len(line) - 1))
    ELSE line

StripLeadingOnly(line) == LStrip(line)

Strip(line) == RStrip(LStrip(line))

(***************************************************************************)
(* Line 170: text_content.split('\n').  The result always has at least     *)
(* one element; the empty text splits into one empty line.                 *)
(***************************************************************************)
FirstNL(text) ==
    IF \E i \in DOMAIN text : text[i] = NL
    THEN CHOOSE i \in DOMAIN text :
             text[i] = NL /\ \A j \in 1..(i - 1) : text[j] # NL
    ELSE 0

RECURSIVE Split(_)
Split(text) ==
    IF FirstNL(text) = 0 THEN <<text>>
    ELSE <<SubSeq(text, 1, FirstNL(text) - 1)>>
         \o Split(SubSeq(text, FirstNL(text) + 1, Len(text)))

(***************************************************************************)
(* Lines 165-183: the document is a sequence of paragraphs.  `color` is    *)
(* the colour of the paragraph's run, <<>> standing for the default.       *)
(***************************************************************************)
Navy == <<0, 0, 128>>
DefaultColor == <<>>

HeadingParagraph ==
    [text |-> <<"Industry Insights Report">>, style |-> "Heading 1",
     color |-> DefaultColor]

(* Lines 171-180: the paragraph added for one line. *)
FormatLine(line) ==
    [text |-> Strip(line), style |-> "Normal",
     color |-> IF IsSubheading(Strip(line)) THEN Navy ELSE DefaultColor]

BuildDocNoHeading(text) ==
    [i \in 1..Len(Split(text)) |-> FormatLine(Split(text)[i])]

(* Lines 165-183: heading, then one paragraph per element of the split. *)
BuildDoc(text) ==
    <<HeadingParagraph>>
    \o [i \in 1..Len(Split(text)) |-> FormatLine(Split(text)[i])]

(***************************************************************************)
(* Final texts the formatting is checked on: every concatenation of at     *)
(* most MaxChunks chunks.                                                  *)
(***************************************************************************)
Chunks ==
    { <<Star>>, <<Star, Star>>, <<NL>>, <<"a">>, <<" ">>,
      KwConclusion, KwFutureOutlook,
      <<"c", "o", "n", "c", "l", "u", "s", "i", "o", "n">>,
      <<"C", "o", "n", "c", "l", "u">>, <<"s", "i", "o", "n">> }

Texts == {Flatten(cs) : cs \in SeqsUpTo(Chunks, MaxChunks)}

(***************************************************************************)
(* State.  Every variable but `environ` is a function of the session.      *)
(*   pc              position of the session's script run                  *)
(*   uploaded_files  value of the file uploader (line 17)                  *)
(*   openai_api_key  value of the text input (line 25)                     *)
(*   environ         os.environ of the process (lines 35-36)               *)
(*   transcripts     line 39-42                                            *)
(*   response        line 46, <<>> when no response was received           *)
(*   exc             the exception raised in the try block, <<>> if none   *)
(*   result          result.raw (line 148, 151)                            *)
(*   text_content    line 152                                              *)
(*   doc             paragraphs of the document, <<>> before it is built   *)
(*   shown           what the run has put on the page, in order            *)
(*   gets            GET requests sent to the model-listing endpoint       *)
(*   kickoffs        calls of crew.kickoff                                 *)
(*   kickoff_input   what the last crew.kickoff call was given             *)
(*   envAtClick      history: environ when the run started                 *)
(*   overlap         history: another session's run was active at some     *)
(*                   moment of this run                                    *)
(***************************************************************************)
VARIABLES pc, uploaded_files, openai_api_key, environ, transcripts,
          response, exc, result, text_content, doc, shown, gets, kickoffs,
          kickoff_input, envAtClick, overlap

vars == <<pc, uploaded_files, openai_api_key, environ, transcripts,
          response, exc, result, text_content, doc, shown, gets, kickoffs,
          kickoff_input, envAtClick, overlap>>

InitialEnviron == [OPENAI_API_KEY |-> Unset, OPENAI_MODEL_NAME |-> Unset]

(* The page elements a run can produce: <<kind, label, argument>>. *)
ErrNoFiles ==
    <<"error", "Please upload at least one transcript file.", <<>>>>
ErrNoKey == <<"error", "Please enter your OpenAI API Key.", <<>>>>
ConnectionOk == <<"success", "API connection successful!", <<>>>>
ArticleOk == <<"success", "Research article generated successfully!", <<>>>>
Markdown(text) == <<"markdown", "text_content", text>>
DownloadButton(document) ==
    <<"download_button", "Download Word Document", document>>
ApiError(e) == <<"error", "API Error", e>>
StatusCodeError(r) == <<"error", "Response Status Code", r.status_code>>
ContentError(r) == <<"error", "Response Content", r.text>>
OccurredError(e) == <<"error", "An error occurred", e>>
Uncaught(name) == <<"exception", name, <<>>>>

Labels(s) == [i \in DOMAIN shown[s] |-> shown[s][i][2]]
Shows(s, label) == \E i \in DOMAIN shown[s] : shown[s][i][2] = label
NumDownloads(s) ==
    Cardinality({i \in DOMAIN shown[s] : shown[s][i][1] = "download_button"})

Active(s) == pc[s] \notin {"idle", "done"}

Init ==
    /\ pc = [s \in AllSessions |-> "idle"]
    /\ uploaded_files = [s \in AllSessions |-> <<>>]
    /\ openai_api_key = [s \in AllSessions |-> ""]
    /\ environ = InitialEnviron
    /\ transcripts = [s \in AllSessions |-> <<>>]
    /\ response = [s \in AllSessions |-> <<>>]
    /\ exc = [s \in AllSessions |-> <<>>]
    /\ result = [s \in AllSessions |-> <<>>]
    /\ text_content = [s \in AllSessions |-> <<>>]
    /\ doc = [s \in AllSessions |-> <<>>]
    /\ shown = [s \in AllSessions |-> <<>>]
    /\ gets = [s \in AllSessions |-> 0]
    /\ kickoffs = [s \in AllSessions |-> 0]
    /\ kickoff_input = [s \in AllSessions |-> <<>>]
    /\ envAtClick = [s \in AllSessions |-> InitialEnviron]
    /\ overlap = [s \in AllSessions |-> FALSE]

(***************************************************************************)
(* Lines 28-33: the button is clicked with the files `f` and the key `k`   *)
(* in the widgets.  The script reruns from the top, so everything the      *)
(* previous run left on the page and in its locals is gone.                *)
(***************************************************************************)
Click(s, uploads, creds) ==
    /\ pc[s] \in {"idle", "done"}
    /\ \E f \in uploads, k \in creds :
        /\ uploaded_files' = [uploaded_files EXCEPT ![s] = f]
        /\ openai_api_key' = [openai_api_key EXCEPT ![s] = k]
        /\ shown' = [shown EXCEPT ![s] =
                        CASE Validate(f, k) = "no_files" -> <<ErrNoFiles>>
                          [] Validate(f, k) = "no_key" -> <<ErrNoKey>>
                          [] OTHER -> <<>>]
        /\ pc' = [pc EXCEPT ![s] =
                     IF Validate(f, k) = "ok" THEN "setenv" ELSE "done"]
        /\ overlap' = [t \in AllSessions |->
                          IF t = s
                          THEN Validate(f, k) = "ok"
                               /\ \E u \in AllSessions \ {s} : Active(u)
                          ELSE overlap[t]
                               \/ (Active(t) /\ Validate(f, k) = "ok")]
    /\ transcripts' = [transcripts EXCEPT ![s] = <<>>]
    /\ response' = [response EXCEPT ![s] = <<>>]
    /\ exc' = [exc EXCEPT ![s] = <<>>]
    /\ result' = [result EXCEPT ![s] = <<>>]
    /\ text_content' = [text_content EXCEPT ![s] = <<>>]
    /\ doc' = [doc EXCEPT ![s] = <<>>]
    /\ gets' = [gets EXCEPT ![s] = 0]
    /\ kickoffs' = [kickoffs EXCEPT ![s] = 0]
    /\ kickoff_input' = [kickoff_input EXCEPT ![s] = <<>>]
    /\ envAtClick' = [envAtClick EXCEPT ![s] = environ]
    /\ UNCHANGED environ

(* Lines 35-36. *)
SetEnv(s) ==
    /\ pc[s] = "setenv"
    /\ environ' = NewEnviron(environ, openai_api_key[s])
    /\ pc' = [pc EXCEPT ![s] = "read"]
    /\ UNCHANGED <<uploaded_files, openai_api_key, transcripts, response,
                   exc, result, text_content, doc, shown, gets, kickoffs,
                   kickoff_input, envAtClick, overlap>>

(* Lines 39-42. *)
ReadFiles(s) ==
    /\ pc[s] = "read"
    /\ transcripts' = [transcripts EXCEPT ![s] =
                          Concatenate(uploaded_files[s])]
    /\ pc' = [pc EXCEPT ![s] = "check"]
    /\ UNCHANGED <<uploaded_files, openai_api_key, environ, response, exc,
                   result, text_content, doc, shown, gets, kickoffs,
                   kickoff_input, envAtClick, overlap>>

(***************************************************************************)
(* Lines 46-49: one GET.  Either no response arrives and requests.get      *)
(* raises, or a response with some status arrives and raise_for_status     *)
(* decides.                                                                *)
(***************************************************************************)
CredentialCheck(s) ==
    /\ pc[s] = "check"
    /\ gets' = [gets EXCEPT ![s] = @ + 1]
    /\ \/ /\ response' = [response EXCEPT ![s] = <<>>]
          /\ exc' = [exc EXCEPT ![s] = <<ConnectionError>>]
          /\ pc' = [pc EXCEPT ![s] = "except"]
          /\ UNCHANGED shown
       \/ \E status \in Statuses :
          /\ response' = [response EXCEPT ![s] = <<HttpResponse(status)>>]
          /\ IF RaisesForStatus(status)
             THEN /\ exc' = [exc EXCEPT ![s] = <<HTTPError(status)>>]
                  /\ pc' = [pc EXCEPT ![s] = "except"]
                  /\ UNCHANGED shown
             ELSE /\ shown' = [shown EXCEPT ![s] = Append(@, ConnectionOk)]
                  /\ pc' = [pc EXCEPT ![s] = "crew"]
                  /\ UNCHANGED exc
    /\ UNCHANGED <<uploaded_files, openai_api_key, environ, transcripts,
                   result, text_content, doc, kickoffs, kickoff_input,
                   envAtClick, overlap>>

(* Lines 52-144: agents, tasks and crew are built from literals. *)
DefineCrew(s) ==
    /\ pc[s] = "crew"
    /\ pc' = [pc EXCEPT ![s] = "kickoff"]
    /\ UNCHANGED <<uploaded_files, openai_api_key, environ, transcripts,
                   response, exc, result, text_content, doc, shown, gets,
                   kickoffs, kickoff_input, envAtClick, overlap>>

(***************************************************************************)
(* Lines 147-148: crew.kickoff() returns a result or raises.               *)
(***************************************************************************)
Kickoff(s) ==
    /\ pc[s] = "kickoff"
    /\ kickoffs' = [kickoffs EXCEPT ![s] = @ + 1]
    /\ kickoff_input' = [kickoff_input EXCEPT ![s] =
                            KickoffInput(transcripts[s])]
    /\ \/ \E raw \in RawResults :
          /\ result' = [result EXCEPT ![s] = raw]
          /\ pc' = [pc EXCEPT ![s] = "display"]
          /\ UNCHANGED exc
       \/ \E e \in KickoffErrors :
          /\ exc' = [exc EXCEPT ![s] = <<e>>]
          /\ pc' = [pc EXCEPT ![s] = "except"]
          /\ UNCHANGED result
    /\ UNCHANGED <<uploaded_files, openai_api_key, environ, transcripts,
                   response, text_content, doc, shown, gets, envAtClick,
                   overlap>>

(* Lines 151-154. *)
Display(s) ==
    /\ pc[s] = "display"
    /\ text_content' = [text_content EXCEPT ![s] = Clean(result[s])]
    /\ shown' = [shown EXCEPT ![s] =
                    @ \o <<ArticleOk, Markdown(Clean(result[s]))>>]
    /\ pc' = [pc EXCEPT ![s] = "build"]
    /\ UNCHANGED <<uploaded_files, openai_api_key, environ, transcripts,
                   response, exc, result, doc, gets, kickoffs,
                   kickoff_input, envAtClick, overlap>>

(* Lines 157-183. *)
BuildDocument(s) ==
    /\ pc[s] = "build"
    /\ doc' = [doc EXCEPT ![s] = BuildDoc(text_content[s])]
    /\ pc' = [pc EXCEPT ![s] = "offer"]
    /\ UNCHANGED <<uploaded_files, openai_api_key, environ, transcripts,
                   response, exc, result, text_content, shown, gets,
                   kickoffs, kickoff_input, envAtClick, overlap>>

(* Lines 186-196. *)
OfferedTwice(ui, document) ==
    ui \o <<DownloadButton(document), DownloadButton(document)>>

Offered(ui, document) == Append(ui, DownloadButton(document))

OfferDownload(s) ==
    /\ pc[s] = "offer"
    /\ shown' = [shown EXCEPT ![s] = Offered(@, doc[s])]
    /\ pc' = [pc EXCEPT ![s] = "done"]
    /\ UNCHANGED <<uploaded_files, openai_api_key, environ, transcripts,
                   response, exc, result, text_content, doc, gets,
                   kickoffs, kickoff_input, envAtClick, overlap>>

(***************************************************************************)
(* Lines 198-202: the first except clause.  When the exception has no      *)
(* response, e.response is None and line 201 raises AttributeError out of  *)
(* the handler; no clause of the same try statement catches it.            *)
(***************************************************************************)
RequestHandlerOutput(e) ==
    IF HasAttrResponse(e)
    THEN IF e.response = <<>>
         THEN <<ApiError(e), Uncaught("AttributeError")>>
         ELSE <<ApiError(e), StatusCodeError(e.response[1]),
                ContentError(e.response[1])>>
    ELSE <<ApiError(e)>>

ExceptRequestException(s) ==
    /\ pc[s] = "except"
    /\ exc[s][1].request
    /\ shown' = [shown EXCEPT ![s] = @ \o RequestHandlerOutput(exc[s][1])]
    /\ pc' = [pc EXCEPT ![s] = "done"]
    /\ UNCHANGED <<uploaded_files, openai_api_key, environ, transcripts,
                   response, exc, result, text_content, doc, gets,
                   kickoffs, kickoff_input, envAtClick, overlap>>

(* Lines 203-204: the second except clause. *)
ExceptException(s) ==
    /\ pc[s] = "except"
    /\ ~exc[s][1].request
    /\ shown' = [shown EXCEPT ![s] = Append(@, OccurredError(exc[s][1]))]
    /\ pc' = [pc EXCEPT ![s] = "done"]
    /\ UNCHANGED <<uploaded_files, openai_api_key, environ, transcripts,
                   response, exc, result, text_content, doc, gets,
                   kickoffs, kickoff_input, envAtClick, overlap>>

(***************************************************************************)
(* Spec: one session using the process.                                    *)
(***************************************************************************)
Next ==
    \E s \in SoloSessions :
        \/ Click(s, Uploads, Credentials)
        \/ SetEnv(s)
        \/ ReadFiles(s)
        \/ CredentialCheck(s)
        \/ DefineCrew(s)
        \/ Kickoff(s)
        \/ Display(s)
        \/ BuildDocument(s)
        \/ OfferDownload(s)
        \/ ExceptRequestException(s)
        \/ ExceptException(s)

Spec == Init /\ [][Next]_vars

(***************************************************************************)
(* SpecShared: two sessions in the same process, their runs interleaved.   *)
(***************************************************************************)
NextShared ==
    \E s \in AllSessions :
        \/ Click(s, SharedUploads, Credentials)
        \/ SetEnv(s)
        \/ ReadFiles(s)
        \/ CredentialCheck(s)
        \/ DefineCrew(s)
        \/ Kickoff(s)
        \/ Display(s)
        \/ BuildDocument(s)
        \/ OfferDownload(s)
        \/ ExceptRequestException(s)
        \/ ExceptException(s)

SpecShared == Init /\ [][NextShared]_vars

(***************************************************************************)
(* SpecFormat: the document formatting on every text of Texts.  The        *)
(* session stands at line 156, after a run that passed validation, the     *)
(* credential check and the pipeline.                                      *)
(***************************************************************************)
InitFormat ==
    /\ pc = [s \in AllSessions |-> IF s \in SoloSessions THEN "build"
                                   ELSE "idle"]
    /\ uploaded_files = [s \in AllSessions |->
                            IF s \in SoloSessions THEN << <<"a">> >>
                            ELSE <<>>]
    /\ openai_api_key = [s \in AllSessions |->
                            IF s \in SoloSessions THEN "sk-A" ELSE ""]
    /\ environ = NewEnviron(InitialEnviron, "sk-A")
    /\ transcripts = [s \in AllSessions |->
                         IF s \in SoloSessions
                         THEN Concatenate(<< <<"a">> >>) ELSE <<>>]
    /\ response = [s \in AllSessions |->
                      IF s \in SoloSessions THEN <<HttpResponse(200)>>
                      ELSE <<>>]
    /\ exc = [s \in AllSessions |-> <<>>]
    /\ \E t \in Texts :
        /\ result = [s \in AllSessions |->
                        IF s \in SoloSessions THEN t ELSE <<>>]
        /\ text_content = [s \in AllSessions |->
                              IF s \in SoloSessions THEN Clean(t) ELSE <<>>]
        /\ shown = [s \in AllSessions |->
                       IF s \in SoloSessions
                       THEN <<ConnectionOk, ArticleOk, Markdown(Clean(t))>>
                       ELSE <<>>]
    /\ doc = [s \in AllSessions |-> <<>>]
    /\ gets = [s \in AllSessions |-> IF s \in SoloSessions THEN 1 ELSE 0]
    /\ kickoffs = [s \in AllSessions |-> IF s \in SoloSessions THEN 1 ELSE 0]
    /\ kickoff_input = [s \in AllSessions |-> <<>>]
    /\ envAtClick = [s \in AllSessions |-> InitialEnviron]
    /\ overlap = [s \in AllSessions |-> FALSE]

NextFormat ==
    \E s \in SoloSessions :
        \/ BuildDocument(s)
        \/ OfferDownload(s)

SpecFormat == InitFormat /\ [][NextFormat]_vars

(***************************************************************************)
(* Vocabulary of the claims.                                               *)
(***************************************************************************)
MissingInput(s) == uploaded_files[s] = <<>> \/ openai_api_key[s] = ""

(* The credential check of the run raised: no response, or a status that
   raise_for_status rejects. *)
CheckRaised(s) == gets[s] > 0 /\ kickoffs[s] = 0 /\ exc[s] # <<>>

(* crew.kickoff of the run raised. *)
PipelineRaised(s) == kickoffs[s] > 0 /\ exc[s] # <<>>

ShowsKind(s, kind) == \E i \in DOMAIN shown[s] : shown[s][i][1] = kind

(* t is `line` without a prefix and a suffix made of stars only, and t
   neither starts nor ends with a star. *)
IsStripOf(t, line) ==
    /\ t = <<>> \/ (Head(t) # Star /\ Last(t) # Star)
    /\ \E i \in 0..Len(line), j \in 0..Len(line) :
        /\ i + Len(t) + j = Len(line)
        /\ SubSeq(line, i + 1, i + Len(t)) = t
        /\ \A k \in 1..i : line[k] = Star
        /\ \A k \in (Len(line) - j + 1)..Len(line) : line[k] = Star

NumNewlines(text) == Cardinality({i \in DOMAIN text : text[i] = NL})

StarredConclusion == <<Star, Star>> \o KwConclusion \o <<Star, Star>>

(***************************************************************************)
(* C1.  A click with no uploaded file, or with files and an empty          *)
(* credential, ends the run at once with exactly one missing-input error   *)
(* on the page; the run sends no GET, does not call the pipeline and       *)
(* offers no download.                                                     *)
(***************************************************************************)
C1_MissingInputStops ==
    \A s \in AllSessions :
        (pc[s] # "idle" /\ MissingInput(s)) =>
            /\ pc[s] = "done"
            /\ Len(shown[s]) = 1
            /\ shown[s][1][1] = "error"
            /\ shown[s][1][2] =
                   (IF uploaded_files[s] = <<>> THEN ErrNoFiles[2]
                    ELSE ErrNoKey[2])
            /\ gets[s] = 0
            /\ kickoffs[s] = 0
            /\ NumDownloads(s) = 0

C1_Witness ==
    \E s \in AllSessions :
        /\ pc[s] = "done"
        /\ uploaded_files[s] # <<>>
        /\ openai_api_key[s] = ""
        /\ Labels(s) = <<ErrNoKey[2]>>

(***************************************************************************)
(* C2, as stated.  The pipeline is invoked only after the run's            *)
(* credential check returned a 2xx status.                                 *)
(***************************************************************************)
C2_Only2xx ==
    \A s \in AllSessions :
        kickoffs[s] > 0 =>
            /\ response[s] # <<>>
            /\ response[s][1].status_code \in 200..299

(***************************************************************************)
(* C2, amended.  The pipeline is invoked only after the one credential     *)
(* check of the run returned a response whose status is not in 400..599;   *)
(* after a 4xx or 5xx status, or when no response arrived, the pipeline    *)
(* is never invoked in that run.                                           *)
(***************************************************************************)
C2_OnlyAfterAcceptedCheck ==
    \A s \in AllSessions :
        /\ (kickoffs[s] > 0 \/ pc[s] \in {"crew", "kickoff"}) =>
              /\ gets[s] = 1
              /\ response[s] # <<>>
              /\ response[s][1].status_code \notin 400..599
        /\ (gets[s] > 0 /\ response[s] = <<>>) => kickoffs[s] = 0
        /\ (response[s] # <<>> /\ response[s][1].status_code \in 400..599)
              => kickoffs[s] = 0

C2_Witness ==
    \E s \in AllSessions :
        /\ kickoffs[s] = 1
        /\ response[s] # <<>>
        /\ response[s][1].status_code \in 300..399

(***************************************************************************)
(* C3.  What the pipeline receives when it is invoked is the concatenated  *)
(* text of the uploaded files.                                             *)
(***************************************************************************)
C3_PipelineGetsTranscripts ==
    \A s \in AllSessions :
        kickoffs[s] > 0 => kickoff_input[s] = transcripts[s]

(***************************************************************************)
(* C4.  A run offers at most one download; a finished run in which         *)
(* validation, the credential check, the pipeline and the formatting       *)
(* succeeded offers exactly one; a run with missing input or with an       *)
(* exception raised by the check or the pipeline offers none.              *)
(***************************************************************************)
C4_DownloadOnceOnSuccess ==
    \A s \in AllSessions :
        /\ NumDownloads(s) <= 1
        /\ (/\ pc[s] = "done"
            /\ ~MissingInput(s)
            /\ exc[s] = <<>>
            /\ kickoffs[s] = 1
            /\ doc[s] # <<>>) => NumDownloads(s) = 1
        /\ (MissingInput(s) \/ exc[s] # <<>>) => NumDownloads(s) = 0

C4_Witness ==
    \E s \in AllSessions :
        /\ pc[s] = "done"
        /\ exc[s] = <<>>
        /\ doc[s] # <<>>
        /\ NumDownloads(s) = 1

(***************************************************************************)
(* C5.  A run whose credential check raised (no response, or a rejected    *)
(* status) ends with the API error on the page, with status code and body  *)
(* when a response is available, without an exception leaving the          *)
(* handler, and without the pipeline having been invoked.                  *)
(***************************************************************************)
C5_CheckFailureHandled ==
    \A s \in AllSessions :
        (pc[s] = "done" /\ CheckRaised(s)) =>
            /\ Shows(s, "API Error")
            /\ ~ShowsKind(s, "exception")
            /\ response[s] # <<>> =>
                  (Shows(s, "Response Status Code")
                   /\ Shows(s, "Response Content"))
            /\ kickoffs[s] = 0

(***************************************************************************)
(* C6.  A run whose pipeline invocation raised, whatever the exception,    *)
(* ends with the pipeline error ("An error occurred") on the page and      *)
(* never with the API error; the pipeline was invoked once and no          *)
(* document was built.                                                     *)
(***************************************************************************)
C6_PipelineFailureReported ==
    \A s \in AllSessions :
        (pc[s] = "done" /\ PipelineRaised(s)) =>
            /\ Shows(s, "An error occurred")
            /\ ~Shows(s, "API Error")
            /\ kickoffs[s] = 1
            /\ doc[s] = <<>>

(***************************************************************************)
(* C7.  In the built document the paragraph of line i of the final text    *)
(* has the line without its leading and trailing stars as text, and is     *)
(* navy exactly when the line contains one of the five keywords,           *)
(* otherwise of the default colour; the line **Conclusion** gives the      *)
(* navy paragraph Conclusion.                                              *)
(***************************************************************************)
C7_StripAndColour ==
    \A s \in AllSessions :
        doc[s] # <<>> =>
            \A i \in 1..Len(Split(text_content[s])) :
                /\ i + 1 \in DOMAIN doc[s]
                /\ IsStripOf(doc[s][i + 1].text, Split(text_content[s])[i])
                /\ doc[s][i + 1].color = Navy <=>
                      \E k \in DOMAIN subheading_keywords :
                          Contains(subheading_keywords[k],
                                   Split(text_content[s])[i])
                /\ doc[s][i + 1].color \in {Navy, DefaultColor}
                /\ Split(text_content[s])[i] = StarredConclusion =>
                      (doc[s][i + 1].text = KwConclusion
                       /\ doc[s][i + 1].color = Navy)

C7_Witness ==
    \E s \in AllSessions :
        /\ doc[s] # <<>>
        /\ \E i \in 1..Len(Split(text_content[s])) :
            /\ Split(text_content[s])[i] = StarredConclusion
            /\ doc[s][i + 1].text = KwConclusion
            /\ doc[s][i + 1].color = Navy

(***************************************************************************)
(* C8, as stated.  The document is the heading paragraph followed by one   *)
(* paragraph per non-empty line, in order; empty lines give no paragraph.  *)
(***************************************************************************)
C8_OnlyNonEmptyLines ==
    \A s \in AllSessions :
        doc[s] # <<>> =>
            LET nonEmpty == SelectSeq(Split(text_content[s]),
                                      LAMBDA l : l # <<>>)
            IN  /\ doc[s][1].text = <<"Industry Insights Report">>
                /\ Len(doc[s]) = 1 + Len(nonEmpty)
                /\ \A i \in 1..Len(nonEmpty) :
                       IsStripOf(doc[s][i + 1].text, nonEmpty[i])

(***************************************************************************)
(* C8, amended.  The document is the heading paragraph "Industry Insights  *)
(* Report" followed by one paragraph per line of the final text, in line   *)
(* order, the lines being the parts between newline characters; an empty   *)
(* line gives an empty paragraph.                                          *)
(***************************************************************************)
C8_OneParagraphPerLine ==
    \A s \in AllSessions :
        doc[s] # <<>> =>
            /\ doc[s][1].text = <<"Industry Insights Report">>
            /\ doc[s][1].style = "Heading 1"
            /\ Len(doc[s]) = 2 + NumNewlines(text_content[s])
            /\ Len(doc[s]) = 1 + Len(Split(text_content[s]))
            /\ \A i \in 1..Len(Split(text_content[s])) :
                   /\ doc[s][i + 1].style = "Normal"
                   /\ IsStripOf(doc[s][i + 1].text,
                                Split(text_content[s])[i])
                   /\ Split(text_content[s])[i] = <<>> =>
                          doc[s][i + 1].text = <<>>

C8_Witness ==
    \E s \in AllSessions :
        /\ Len(doc[s]) = 4
        /\ Split(text_content[s])[2] = <<>>
        /\ doc[s][3].text = <<>>
        /\ doc[s][4].text # <<>>

(***************************************************************************)
(* C9, as stated.  A run that ends with a missing-input error or with a    *)
(* failed credential check leaves both variables as they were before the   *)
(* run.                                                                    *)
(***************************************************************************)
C9_FailedRunLeavesEnviron ==
    \A s \in AllSessions :
        (pc[s] = "done" /\ (MissingInput(s) \/ CheckRaised(s))) =>
            environ = envAtClick[s]

(***************************************************************************)
(* C9, amended.  The two variables are set after input validation has      *)
(* succeeded and before the credential check: a run that ends with a       *)
(* missing-input error leaves both as they were before the run, a run      *)
(* that has sent its credential check, failed or not, has both set to its  *)
(* own credential and the fixed model name, and no step of any run clears  *)
(* a variable that is set.                                                 *)
(***************************************************************************)
C9_SetBeforeCheck ==
    /\ [](\A s \in SoloSessions :
            /\ (pc[s] = "done" /\ MissingInput(s)) =>
                   environ = envAtClick[s]
            /\ pc[s] = "setenv" => environ = envAtClick[s]
            /\ gets[s] > 0 =>
                   (environ.OPENAI_API_KEY = openai_api_key[s]
                    /\ environ.OPENAI_MODEL_NAME = ModelName))
    /\ [][/\ environ.OPENAI_API_KEY # Unset =>
                 environ'.OPENAI_API_KEY # Unset
          /\ environ.OPENAI_MODEL_NAME # Unset =>
                 environ'.OPENAI_MODEL_NAME # Unset]_vars

C9_Witness ==
    \E s \in SoloSessions :
        /\ pc[s] = "done"
        /\ CheckRaised(s)
        /\ environ # envAtClick[s]
        /\ environ.OPENAI_API_KEY = openai_api_key[s]

(***************************************************************************)
(* C10.  When no other session's run overlapped this run, the credential   *)
(* variable holds this run's credential at the pipeline invocation.  With  *)
(* two interleaved runs the state C10_Race is reachable: one run is at     *)
(* the pipeline invocation while the variable holds the credential of the  *)
(* other, still active, run.                                               *)
(***************************************************************************)
C10_AloneOwnCredential ==
    \A s \in AllSessions :
        (pc[s] = "kickoff" /\ ~overlap[s]) =>
            environ.OPENAI_API_KEY = openai_api_key[s]

C10_Race ==
    \E s \in AllSessions, t \in AllSessions :
        /\ s # t
        /\ pc[s] = "kickoff"
        /\ Active(t)
        /\ openai_api_key[t] # openai_api_key[s]
        /\ environ.OPENAI_API_KEY = openai_api_key[t]

====
